---------------------------- MODULE Spec2Model ----------------------------
(***************************************************************************)
(* Model of the MPU6050 driver (src/mpu6050.py).                           *)
(*                                                                         *)
(* The device is a register file reached through the I2C transport: a      *)
(* register read returns what the register holds, a register write stores  *)
(* the byte.  Every driver method is an operator from the bus state before *)
(* the call to a result (bus state after, exception, return value); the    *)
(* actions apply one method each.                                          *)
(***************************************************************************)
EXTENDS Integers, Sequences, FiniteSets, TLC

VARIABLES
    pc,      \* "new": no handle yet; "ready": constructed; "failed": __init__ raised
    conn,    \* transport connection: "closed", "started", "start_failed"
    regs,    \* device registers: address -> byte
    pre,     \* device registers before the most recent call
    log,     \* bus transactions of the most recent call, in order
    last,    \* the most recent call: [op, arg, exc, ret]
    left,    \* register-writing calls still allowed (bounds the exploration)
    thr      \* two callers sharing the handle: each one's setter in progress

vars == <<pc, conn, regs, pre, log, last, left, thr>>

----------------------------------------------------------------------------
(* Python integers: bit operations on unbounded two's complement.          *)

Byte == 0..255

\* one bit of a & b and of a | b
RECURSIVE BitsAnd(_, _, _)
BitsAnd(a, b, n) ==
    IF n = 0 THEN 0 ELSE (a % 2) * (b % 2) + 2 * BitsAnd(a \div 2, b \div 2, n - 1)

RECURSIVE BitsOr(_, _, _)
BitsOr(a, b, n) ==
    IF n = 0 THEN 0
    ELSE (IF a % 2 = 1 \/ b % 2 = 1 THEN 1 ELSE 0) + 2 * BitsOr(a \div 2, b \div 2, n - 1)

\* the operations on four-bit digits, tabulated
AndDigits == [x \in 0..15 |-> [y \in 0..15 |-> BitsAnd(x, y, 4)]]
OrDigits == [x \in 0..15 |-> [y \in 0..15 |-> BitsOr(x, y, 4)]]

\* a & b and a | b, digit by digit from the low end; 0 and -1 are the two
\* values whose digits repeat for ever
RECURSIVE PyAnd(_, _)
PyAnd(a, b) ==
    IF a = 0 \/ b = 0 THEN 0
    ELSE IF a = -1 THEN b
    ELSE IF b = -1 THEN a
    ELSE AndDigits[a % 16][b % 16] + 16 * PyAnd(a \div 16, b \div 16)

RECURSIVE PyOr(_, _)
PyOr(a, b) ==
    IF a = 0 THEN b
    ELSE IF b = 0 THEN a
    ELSE IF a = -1 \/ b = -1 THEN -1
    ELSE OrDigits[a % 16][b % 16] + 16 * PyOr(a \div 16, b \div 16)

PyNot(a) == -a - 1

PyShl(a, n) == a * 2^n

PyShr(a, n) == a \div 2^n

(* Python values that the claims distinguish by type.  A decimal string    *)
(* str(n) is kept as the number it spells, tagged "str": it never equals   *)
(* the int n.  A float quotient is kept exact as numerator and divisor.    *)
PyNone == <<"none">>
PyInt(n) == <<"int", n>>
PyBool(n) == <<"bool", n>>
PyStr(n) == <<"str", n>>
str(n) == PyStr(n)

True == PyBool(1)
False == PyBool(0)

\* Python ==: bool and int compare by value, a str equals only a str
PyEq(a, b) ==
    IF a[1] \in {"int", "bool"} /\ b[1] \in {"int", "bool"} THEN a[2] = b[2]
    ELSE a = b

\* Python truth value of a bool or int
Truthy(a) == a[2] # 0

----------------------------------------------------------------------------
(* Constants of the driver.                                                *)

GRAVITIY_MS2 == 980665            \* 9.80665, in 1e-5 m/s^2

\* sensitivities in tenths of LSB per unit (65.5, 32.8 and 16.4 are not integers)
ACCEL_SENSITIVITY_2G == 163840
ACCEL_SENSITIVITY_4G == 81920
ACCEL_SENSITIVITY_8G == 40960
ACCEL_SENSITIVITY_16G == 20480

GYRO_SENSITIVITY_250DPS == 1310
GYRO_SENSITIVITY_500DPS == 655
GYRO_SENSITIVITY_1000DPS == 328
GYRO_SENSITIVITY_2000DPS == 164

REG_WHO_AM_I == 117
PWR_MGMT_1 == 107
ACCEL_CONFIG == 28
GYRO_CONFIG == 27
ACCEL_XOUT0 == 59
TEMP_OUT0 == 65
GYRO_XOUT0 == 67
REG_CONFIG == 26
REG_INT_ENABLE == 56
REG_INT_STATUS == 58
REG_MOT_DETECT_CTRL == 105
REG_MOT_THRESHOLD == 31
REG_MOT_DURATION == 32
REG_ZMOT_THRESHOLD == 33
REG_ZMOT_DURATION == 34

DELAY == 3
THRESHOLD == 2
DURATION == 5
ZTHRESHOLD == 4
ZDURATION == 2
FF_EN == False
MOT_EN == False
ZMOT_EN == False

\* class tables
accel_fullscale == (str(2) :> 0) @@ (str(4) :> 1) @@ (str(8) :> 2) @@ (str(16) :> 3)

accel_sensitivity ==
    <<ACCEL_SENSITIVITY_2G, ACCEL_SENSITIVITY_4G,
      ACCEL_SENSITIVITY_8G, ACCEL_SENSITIVITY_16G>>

gyro_fullscale == (str(250) :> 0) @@ (str(500) :> 1) @@ (str(1000) :> 2) @@ (str(2000) :> 3)

gyro_sensitivity ==
    <<GYRO_SENSITIVITY_250DPS, GYRO_SENSITIVITY_500DPS,
      GYRO_SENSITIVITY_1000DPS, GYRO_SENSITIVITY_2000DPS>>

\* the registers the driver configures, and the sensor's output registers
ConfigRegs ==
    {PWR_MGMT_1, ACCEL_CONFIG, GYRO_CONFIG, REG_CONFIG, REG_INT_ENABLE,
     REG_INT_STATUS, REG_MOT_DETECT_CTRL, REG_MOT_THRESHOLD, REG_MOT_DURATION,
     REG_ZMOT_THRESHOLD, REG_ZMOT_DURATION}

OutRegs == ACCEL_XOUT0 .. (GYRO_XOUT0 + 5)

AllRegs == ConfigRegs \cup OutRegs \cup {REG_WHO_AM_I}

----------------------------------------------------------------------------
(* The transport.  A bus state is [regs, log, conn].                       *)

\* the bytes a read of n registers starting at reg returns
rx(b, reg, n) == [i \in 1..n |-> b.regs[reg + i - 1]]

\* the bus after that read
write_read(b, reg, n) == [b EXCEPT !.log = Append(@, <<"r", reg, n>>)]

\* the bus after writing value to reg
write_bytes(b, reg, value) ==
    [b EXCEPT !.regs[reg] = value, !.log = Append(@, <<"w", reg, value>>)]

\* method results; a method that raises ends where it raised
Ok(b, ret) == [bus |-> b, exc |-> "none", ret |-> ret]
Raise(b, e) == [bus |-> b, exc |-> e, ret |-> PyNone]

----------------------------------------------------------------------------
(* Two's complement.                                                       *)

\* _tc with the mask one bit too high
tc_mask_too_high(v, n_bit) ==
    LET mask == 2^n_bit
    IN  -(PyAnd(v, mask)) + PyAnd(v, PyNot(mask))

_tc(v, n_bit) ==
    LET mask == 2^(n_bit - 1)
    IN  -(PyAnd(v, mask)) + PyAnd(v, PyNot(mask))

\* data[i] << 8 | data[i+1], decoded
raw16(data, i) == _tc(PyOr(PyShl(data[i], 8), data[i + 1]), 16)

----------------------------------------------------------------------------
(* Configuration methods.                                                  *)

is_sleep_mode_shift5(b) ==
    LET value == rx(b, PWR_MGMT_1, 1)[1]
    IN  Ok(write_read(b, PWR_MGMT_1, 1), PyInt(PyAnd(PyShr(value, 5), 1)))

is_sleep_mode(b) ==
    LET value == rx(b, PWR_MGMT_1, 1)[1]
    IN  Ok(write_read(b, PWR_MGMT_1, 1), PyInt(PyAnd(PyShr(value, 6), 1)))

set_sleep_mode(b, state) ==
    IF ~PyEq(state, True) /\ ~PyEq(state, False) THEN Raise(b, "ValueError")
    ELSE
        LET b1 == write_read(b, PWR_MGMT_1, 1)
            value == rx(b, PWR_MGMT_1, 1)[1]
            value2 == IF Truthy(state) THEN PyOr(value, PyShl(1, 6))
                      ELSE PyAnd(value, PyNot(PyShl(1, 6)))
        IN  Ok(write_bytes(b1, PWR_MGMT_1, value2), PyNone)

\* set_dlpf_mode accepting one code too many
set_dlpf_mode_upto8(b, dlpf) ==
    IF dlpf \notin {0, 1, 2, 3, 4, 5, 6, 7, 8} THEN Raise(b, "ValueError")
    ELSE
        LET b1 == write_read(b, REG_CONFIG, 1)
            value == PyOr(PyAnd(rx(b, REG_CONFIG, 1)[1], 248), dlpf)
        IN  Ok(write_bytes(b1, REG_CONFIG, value), PyNone)

set_dlpf_mode(b, dlpf) ==
    IF dlpf \notin {0, 1, 2, 3, 4, 5, 6, 7} THEN Raise(b, "ValueError")
    ELSE
        LET b1 == write_read(b, REG_CONFIG, 1)
            value == PyOr(PyAnd(rx(b, REG_CONFIG, 1)[1], 248), dlpf)
        IN  Ok(write_bytes(b1, REG_CONFIG, value), PyNone)

\* set_dhpf_mode with a mask that also clears the full-scale bits
set_dhpf_mode_widemask(b, dhpf) ==
    IF dhpf \notin {0, 1, 2, 3, 4, 7} THEN Raise(b, "ValueError")
    ELSE
        LET b1 == write_read(b, ACCEL_CONFIG, 1)
            value == PyOr(PyAnd(rx(b, ACCEL_CONFIG, 1)[1], 224), dhpf)
        IN  Ok(write_bytes(b1, ACCEL_CONFIG, value), PyNone)

set_dhpf_mode(b, dhpf) ==
    IF dhpf \notin {0, 1, 2, 3, 4, 7} THEN Raise(b, "ValueError")
    ELSE
        LET b1 == write_read(b, ACCEL_CONFIG, 1)
            value == PyOr(PyAnd(rx(b, ACCEL_CONFIG, 1)[1], 248), dhpf)
        IN  Ok(write_bytes(b1, ACCEL_CONFIG, value), PyNone)

get_clock_source(b) ==
    Ok(write_read(b, PWR_MGMT_1, 1), PyInt(PyAnd(rx(b, PWR_MGMT_1, 1)[1], 7)))

set_clock_source(b, clksel) ==
    IF clksel \notin {0, 1, 2, 3, 4, 5, 7} THEN Raise(b, "ValueError")
    ELSE
        LET b1 == write_read(b, PWR_MGMT_1, 1)
            value == PyOr(PyAnd(rx(b, PWR_MGMT_1, 1)[1], 248), clksel)
        IN  Ok(write_bytes(b1, PWR_MGMT_1, value), PyNone)

\* set_accel_fullscale without the initial write of 0x00
set_accel_fullscale_nozero(b, full_scale) ==
    IF full_scale \notin {2, 4, 8, 16} THEN Raise(b, "ValueError")
    ELSE
        LET code == accel_fullscale[str(full_scale)]
            b2 == write_read(b, ACCEL_CONFIG, 1)
            value == PyOr(PyAnd(rx(b, ACCEL_CONFIG, 1)[1], 231), PyShl(code, 3))
        IN  Ok(write_bytes(b2, ACCEL_CONFIG, value), PyNone)

set_accel_fullscale(b, full_scale) ==
    IF full_scale \notin {2, 4, 8, 16} THEN Raise(b, "ValueError")
    ELSE
        LET b1 == write_bytes(b, ACCEL_CONFIG, 0)
            code == accel_fullscale[str(full_scale)]
            b2 == write_read(b1, ACCEL_CONFIG, 1)
            value == PyOr(PyAnd(rx(b1, ACCEL_CONFIG, 1)[1], 231), PyShl(code, 3))
        IN  Ok(write_bytes(b2, ACCEL_CONFIG, value), PyNone)

\* the first of values[i..] whose table code equals raw_data, else -1
RECURSIVE fullscale_lookup(_, _, _, _)
fullscale_lookup(table, values, raw_data, i) ==
    IF i > Len(values) THEN PyInt(-1)
    ELSE IF raw_data = table[values[i]] THEN values[i]
    ELSE fullscale_lookup(table, values, raw_data, i + 1)

get_accel_fullscale(b) ==
    LET raw_data == PyShr(PyAnd(rx(b, ACCEL_CONFIG, 1)[1], 24), 3)
        values == <<str(2), str(4), str(8), str(16)>>
    IN  Ok(write_read(b, ACCEL_CONFIG, 1),
           fullscale_lookup(accel_fullscale, values, raw_data, 1))

set_gyro_fullscale(b, full_scale) ==
    IF full_scale \notin {250, 500, 1000, 2000} THEN Raise(b, "ValueError")
    ELSE
        LET b1 == write_bytes(b, GYRO_CONFIG, 0)
            code == gyro_fullscale[str(full_scale)]
            b2 == write_read(b1, GYRO_CONFIG, 1)
            value == PyOr(PyAnd(rx(b1, GYRO_CONFIG, 1)[1], 231), PyShl(code, 3))
        IN  Ok(write_bytes(b2, GYRO_CONFIG, value), PyNone)

get_gyro_fullscale(b) ==
    LET raw_data == PyShr(PyAnd(rx(b, GYRO_CONFIG, 1)[1], 24), 3)
        values == <<str(250), str(500), str(1000), str(2000)>>
    IN  Ok(write_read(b, GYRO_CONFIG, 1),
           fullscale_lookup(gyro_fullscale, values, raw_data, 1))

----------------------------------------------------------------------------
(* Measurement methods.  A float is kept exact: <<"float", num, den>> is   *)
(* num / den; an axis dictionary <<"dict", <<x, y, z>>, sens, scale>> holds *)
(* the raw axes, the sensitivity that divides them (in tenths) and the     *)
(* factor that multiplies them (in 1e-5: 100000 for g, 980665 for m/s^2).  *)

get_temp(b) ==
    LET data == rx(b, TEMP_OUT0, 2)
        raw_temp == raw16(data, 1)
    IN  Ok(write_read(b, TEMP_OUT0, 2), <<"float", raw_temp * 100 + 340 * 3653, 34000>>)

\* the sensitivity the loop over values leaves: the default, overwritten at
\* every i whose table code equals full_scale
RECURSIVE sensitivity_lookup(_, _, _, _, _, _)
sensitivity_lookup(table, values, sens, full_scale, i, current) ==
    IF i > Len(values) THEN current
    ELSE sensitivity_lookup(table, values, sens, full_scale, i + 1,
            IF PyEq(full_scale, PyInt(table[values[i]])) THEN sens[i] ELSE current)

get_accel_values(b, g) ==
    IF ~PyEq(g, True) /\ ~PyEq(g, False) THEN Raise(b, "ValueError")
    ELSE
        LET data == rx(b, ACCEL_XOUT0, 6)
            b1 == write_read(b, ACCEL_XOUT0, 6)
            x == raw16(data, 1)
            y == raw16(data, 3)
            z == raw16(data, 5)
            fs == get_accel_fullscale(b1)
            values == <<str(2), str(4), str(8), str(16)>>
            sens == sensitivity_lookup(accel_fullscale, values, accel_sensitivity,
                                       fs.ret, 1, ACCEL_SENSITIVITY_2G)
        IN  IF g = True THEN Ok(fs.bus, <<"dict", <<x, y, z>>, sens, 100000>>)
            ELSE IF g = False THEN Ok(fs.bus, <<"dict", <<x, y, z>>, sens, GRAVITIY_MS2>>)
            ELSE Ok(fs.bus, PyNone)

get_gyro_values(b) ==
    LET data == rx(b, GYRO_XOUT0, 6)
        b1 == write_read(b, GYRO_XOUT0, 6)
        x == raw16(data, 1)
        y == raw16(data, 3)
        z == raw16(data, 5)
        fs == get_gyro_fullscale(b1)
        values == <<str(250), str(500), str(1000), str(2000)>>
        sens == sensitivity_lookup(gyro_fullscale, values, gyro_sensitivity,
                                   fs.ret, 1, GYRO_SENSITIVITY_250DPS)
    IN  Ok(fs.bus, <<"dict", <<x, y, z>>, sens, 100000>>)

get_values(b, g) ==
    IF ~PyEq(g, True) /\ ~PyEq(g, False) THEN Raise(b, "ValueError")
    ELSE
        LET temp == get_temp(b)
            accel == get_accel_values(temp.bus, g)
            gyro == get_gyro_values(accel.bus)
        IN  Ok(gyro.bus, <<"list", temp.ret, accel.ret, gyro.ret>>)

----------------------------------------------------------------------------
(* Motion detection methods.                                               *)

write_register_bit(b, reg, pos, state) ==
    IF ~PyEq(state, True) /\ ~PyEq(state, False) THEN Raise(b, "ValueError")
    ELSE IF pos < 0 THEN Raise(b, "ValueError")
    ELSE
        LET b1 == write_read(b, reg, 1)
            value == rx(b, reg, 1)[1]
            value2 == IF Truthy(state) THEN PyOr(value, PyShl(1, pos))
                      ELSE PyAnd(value, PyNot(PyShl(1, pos)))
        IN  Ok(write_bytes(b1, reg, value2), PyNone)

set_accel_power_on_delay(b, delay) ==
    IF delay < 0 \/ delay > 3 THEN Raise(b, "ValueError")
    ELSE
        LET b1 == write_read(b, REG_MOT_DETECT_CTRL, 1)
            value == PyOr(PyAnd(rx(b, REG_MOT_DETECT_CTRL, 1)[1], 207), PyShl(delay, 4))
        IN  Ok(write_bytes(b1, REG_MOT_DETECT_CTRL, value), PyNone)

set_free_fall(b, state) ==
    IF ~PyEq(state, True) /\ ~PyEq(state, False) THEN Raise(b, "ValueError")
    ELSE write_register_bit(b, REG_INT_ENABLE, 7, state)

set_zero_motion(b, state) ==
    IF ~PyEq(state, True) /\ ~PyEq(state, False) THEN Raise(b, "ValueError")
    ELSE write_register_bit(b, REG_INT_ENABLE, 5, state)

set_motion(b, state) ==
    IF ~PyEq(state, True) /\ ~PyEq(state, False) THEN Raise(b, "ValueError")
    ELSE write_register_bit(b, REG_INT_ENABLE, 6, state)

set_motion_detection_threshold(b, threshold) ==
    IF threshold < 0 THEN Raise(b, "ValueError")
    ELSE Ok(write_bytes(b, REG_MOT_THRESHOLD, threshold), PyNone)

set_motion_detection_duration(b, duration) ==
    IF duration < 0 THEN Raise(b, "ValueError")
    ELSE Ok(write_bytes(b, REG_MOT_DURATION, duration), PyNone)

set_zero_motion_detection_threshold(b, threshold) ==
    IF threshold < 0 THEN Raise(b, "ValueError")
    ELSE Ok(write_bytes(b, REG_ZMOT_THRESHOLD, threshold), PyNone)

set_zero_motion_detection_duration(b, duration) ==
    IF duration < 0 THEN Raise(b, "ValueError")
    ELSE Ok(write_bytes(b, REG_ZMOT_DURATION, duration), PyNone)

is_motion_detected(b) ==
    LET data == rx(b, REG_INT_STATUS, 1)[1]
    IN  Ok(write_read(b, REG_INT_STATUS, 1), PyInt(PyAnd(PyShr(data, 6), 1)))

is_data_ready(b) ==
    LET data == rx(b, REG_INT_STATUS, 1)[1]
    IN  Ok(write_read(b, REG_INT_STATUS, 1), PyInt(PyAnd(PyShr(data, 0), 1)))

setup_motion(b) ==
    LET Then(r, M(_)) == IF r.exc # "none" THEN r ELSE M(r.bus)
        r1 == set_accel_power_on_delay(b, DELAY)
        r2 == Then(r1, LAMBDA bb : set_free_fall(bb, FF_EN))
        r3 == Then(r2, LAMBDA bb : set_zero_motion(bb, ZMOT_EN))
        r4 == Then(r3, LAMBDA bb : set_motion(bb, MOT_EN))
        r5 == Then(r4, LAMBDA bb : set_dhpf_mode(bb, 1))
        r6 == Then(r5, LAMBDA bb : set_motion_detection_threshold(bb, THRESHOLD))
        r7 == Then(r6, LAMBDA bb : set_motion_detection_duration(bb, DURATION))
        r8 == Then(r7, LAMBDA bb : set_zero_motion_detection_threshold(bb, ZDURATION))
    IN  Then(r8, LAMBDA bb : set_zero_motion_detection_duration(bb, ZTHRESHOLD))

----------------------------------------------------------------------------
(* Construction.  startOk tells whether the transport's start() succeeds;  *)
(* a PeripheralError it raises is caught and printed.                      *)

\* __init__ that checks the identity register only after the clock source is set
init_late_identity(b, addr, startOk) ==
    IF addr # 104 /\ addr # 105 THEN Raise(b, "ValueError")
    ELSE
        LET b0 == [b EXCEPT !.conn = IF startOk THEN "started" ELSE "start_failed"]
            r1 == set_clock_source(b0, 1)
            b1 == write_read(r1.bus, REG_WHO_AM_I, 1)
        IN  IF rx(b0, REG_WHO_AM_I, 1)[1] # 104 THEN Raise(b1, "ValueError")
            ELSE
                LET Then(r, M(_)) == IF r.exc # "none" THEN r ELSE M(r.bus)
                    r2 == Then(r1, LAMBDA bb : set_accel_fullscale(b1, 2))
                    r3 == Then(r2, LAMBDA bb : set_gyro_fullscale(bb, 2000))
                    r4 == Then(r3, LAMBDA bb : set_dlpf_mode(bb, 0))
                IN  Then(r4, LAMBDA bb : set_sleep_mode(bb, False))

\* __init__ that programs the gyroscope range before the accelerometer range
init_gyro_first(b, addr, startOk) ==
    IF addr # 104 /\ addr # 105 THEN Raise(b, "ValueError")
    ELSE
        LET b0 == [b EXCEPT !.conn = IF startOk THEN "started" ELSE "start_failed"]
            b1 == write_read(b0, REG_WHO_AM_I, 1)
        IN  IF rx(b0, REG_WHO_AM_I, 1)[1] # 104 THEN Raise(b1, "ValueError")
            ELSE
                LET Then(r, M(_)) == IF r.exc # "none" THEN r ELSE M(r.bus)
                    r1 == set_clock_source(b1, 1)
                    r2 == Then(r1, LAMBDA bb : set_gyro_fullscale(bb, 2000))
                    r3 == Then(r2, LAMBDA bb : set_accel_fullscale(bb, 2))
                    r4 == Then(r3, LAMBDA bb : set_dlpf_mode(bb, 0))
                IN  Then(r4, LAMBDA bb : set_sleep_mode(bb, False))

__init__(b, addr, startOk) ==
    IF addr # 104 /\ addr # 105 THEN Raise(b, "ValueError")
    ELSE
        LET b0 == [b EXCEPT !.conn = IF startOk THEN "started" ELSE "start_failed"]
            b1 == write_read(b0, REG_WHO_AM_I, 1)
        IN  IF rx(b0, REG_WHO_AM_I, 1)[1] # 104 THEN Raise(b1, "ValueError")
            ELSE
                LET Then(r, M(_)) == IF r.exc # "none" THEN r ELSE M(r.bus)
                    r1 == set_clock_source(b1, 1)
                    r2 == Then(r1, LAMBDA bb : set_accel_fullscale(bb, 2))
                    r3 == Then(r2, LAMBDA bb : set_gyro_fullscale(bb, 2000))
                    r4 == Then(r3, LAMBDA bb : set_dlpf_mode(bb, 0))
                IN  Then(r4, LAMBDA bb : set_sleep_mode(bb, False))

----------------------------------------------------------------------------
(* The state machine.                                                      *)

MaxCalls == 2        \* register-writing calls explored, construction included

\* arguments the calls are tried with: every legal value and some illegal ones
Addrs == {104, 105, 0, 103}
IdBytes == {104, 0, 105}
InitBytes == {0, 255}
StateArgs == {True, False, PyInt(2)}
CodeArgs == -1..8
AccelArgs == {0, 2, 3, 4, 8, 16}
GyroArgs == {0, 250, 251, 500, 1000, 2000}
DelayArgs == -1..4
LevelArgs == {-1, 0, 2, 4, 5, 255, 256}
BitRegs == {REG_INT_ENABLE}
BitPositions == {-1, 0, 3, 8}

\* register contents: the configuration registers hold c, the identity
\* register holds id, the output register pairs hold (hi, lo) and (lo, hi)
\* alternately (accel X, Z, gyro X, Z high-first; accel Y, temperature, gyro Y
\* swapped)
DeviceRegs(c, id, hi, lo) ==
    [r \in AllRegs |->
        IF r = REG_WHO_AM_I THEN id
        ELSE IF r \in OutRegs THEN
            (IF ((r - ACCEL_XOUT0) \div 2) % 2 = (r - ACCEL_XOUT0) % 2 THEN hi ELSE lo)
        ELSE c]

\* the register contents SpecReg starts from: every ninth byte and 0xFF, so
\* that each bit field takes each of its values beside varied neighbours
RegBytes == {c \in Byte : c % 9 = 0} \cup {255}

NoCall == [op |-> "none", arg |-> <<>>, exc |-> "none", ret |-> PyNone]

\* the callers that may share one handle, and a caller with no call in progress
Callers == {1, 2}
Idle == [pos |-> "idle", op |-> "none", arg |-> PyNone, value |-> 0,
         exc |-> "none", rd |-> 0, wr |-> 0]

Bus == [regs |-> regs, log |-> <<>>, conn |-> conn]

Wrote(l) == \E i \in 1..Len(l) : l[i][1] = "w"

\* the effect of one call with result r
Call(op, arg, r) ==
    /\ Wrote(r.bus.log) => left > 0
    /\ left' = IF Wrote(r.bus.log) THEN left - 1 ELSE left
    /\ regs' = r.bus.regs
    /\ conn' = r.bus.conn
    /\ log' = r.bus.log
    /\ pre' = regs
    /\ last' = [op |-> op, arg |-> arg, exc |-> r.exc, ret |-> r.ret]
    /\ pc' = pc
    /\ thr' = thr

Construct ==
    /\ pc = "new"
    /\ left > 0
    /\ \E addr \in Addrs, startOk \in BOOLEAN :
        LET r == __init__(Bus, addr, startOk)
        IN  /\ pc' = IF r.exc = "none" THEN "ready" ELSE "failed"
            /\ regs' = r.bus.regs
            /\ conn' = r.bus.conn
            /\ log' = r.bus.log
            /\ pre' = regs
            /\ last' = [op |-> "__init__", arg |-> <<addr>>, exc |-> r.exc, ret |-> r.ret]
            /\ left' = IF Wrote(r.bus.log) THEN left - 1 ELSE left
            /\ thr' = thr

IsSleepMode ==
    /\ pc = "ready"
    /\ Call("is_sleep_mode", <<>>, is_sleep_mode(Bus))

SetSleepMode ==
    /\ pc = "ready"
    /\ \E a \in StateArgs : Call("set_sleep_mode", <<a>>, set_sleep_mode(Bus, a))

SetDlpfMode ==
    /\ pc = "ready"
    /\ \E a \in CodeArgs : Call("set_dlpf_mode", <<a>>, set_dlpf_mode(Bus, a))

SetDhpfMode ==
    /\ pc = "ready"
    /\ \E a \in CodeArgs : Call("set_dhpf_mode", <<a>>, set_dhpf_mode(Bus, a))

GetClockSource ==
    /\ pc = "ready"
    /\ Call("get_clock_source", <<>>, get_clock_source(Bus))

SetClockSource ==
    /\ pc = "ready"
    /\ \E a \in CodeArgs : Call("set_clock_source", <<a>>, set_clock_source(Bus, a))

GetTemp ==
    /\ pc = "ready"
    /\ Call("get_temp", <<>>, get_temp(Bus))

SetAccelFullscale ==
    /\ pc = "ready"
    /\ \E a \in AccelArgs : Call("set_accel_fullscale", <<a>>, set_accel_fullscale(Bus, a))

GetAccelFullscale ==
    /\ pc = "ready"
    /\ Call("get_accel_fullscale", <<>>, get_accel_fullscale(Bus))

GetAccelValues ==
    /\ pc = "ready"
    /\ \E a \in StateArgs : Call("get_accel_values", <<a>>, get_accel_values(Bus, a))

SetGyroFullscale ==
    /\ pc = "ready"
    /\ \E a \in GyroArgs : Call("set_gyro_fullscale", <<a>>, set_gyro_fullscale(Bus, a))

GetGyroFullscale ==
    /\ pc = "ready"
    /\ Call("get_gyro_fullscale", <<>>, get_gyro_fullscale(Bus))

GetGyroValues ==
    /\ pc = "ready"
    /\ Call("get_gyro_values", <<>>, get_gyro_values(Bus))

GetValues ==
    /\ pc = "ready"
    /\ \E a \in StateArgs : Call("get_values", <<a>>, get_values(Bus, a))

WriteRegisterBit ==
    /\ pc = "ready"
    /\ \E reg \in BitRegs, pos \in BitPositions, a \in StateArgs :
        Call("write_register_bit", <<reg, pos, a>>, write_register_bit(Bus, reg, pos, a))

SetAccelPowerOnDelay ==
    /\ pc = "ready"
    /\ \E a \in DelayArgs :
        Call("set_accel_power_on_delay", <<a>>, set_accel_power_on_delay(Bus, a))

SetFreeFall ==
    /\ pc = "ready"
    /\ \E a \in StateArgs : Call("set_free_fall", <<a>>, set_free_fall(Bus, a))

SetZeroMotion ==
    /\ pc = "ready"
    /\ \E a \in StateArgs : Call("set_zero_motion", <<a>>, set_zero_motion(Bus, a))

SetMotion ==
    /\ pc = "ready"
    /\ \E a \in StateArgs : Call("set_motion", <<a>>, set_motion(Bus, a))

SetMotionDetectionThreshold ==
    /\ pc = "ready"
    /\ \E a \in LevelArgs :
        Call("set_motion_detection_threshold", <<a>>, set_motion_detection_threshold(Bus, a))

SetMotionDetectionDuration ==
    /\ pc = "ready"
    /\ \E a \in LevelArgs :
        Call("set_motion_detection_duration", <<a>>, set_motion_detection_duration(Bus, a))

SetZeroMotionDetectionThreshold ==
    /\ pc = "ready"
    /\ \E a \in LevelArgs :
        Call("set_zero_motion_detection_threshold", <<a>>,
             set_zero_motion_detection_threshold(Bus, a))

SetZeroMotionDetectionDuration ==
    /\ pc = "ready"
    /\ \E a \in LevelArgs :
        Call("set_zero_motion_detection_duration", <<a>>,
             set_zero_motion_detection_duration(Bus, a))

IsMotionDetected ==
    /\ pc = "ready"
    /\ Call("is_motion_detected", <<>>, is_motion_detected(Bus))

IsDataReady ==
    /\ pc = "ready"
    /\ Call("is_data_ready", <<>>, is_data_ready(Bus))

SetupMotion ==
    /\ pc = "ready"
    /\ Call("setup_motion", <<>>, setup_motion(Bus))

Config ==
    \/ IsSleepMode \/ SetSleepMode \/ SetDlpfMode \/ SetDhpfMode
    \/ GetClockSource \/ SetClockSource
    \/ SetAccelFullscale \/ GetAccelFullscale
    \/ SetGyroFullscale \/ GetGyroFullscale

Measure == GetTemp \/ GetAccelValues \/ GetGyroValues \/ GetValues

Motion ==
    \/ WriteRegisterBit \/ SetAccelPowerOnDelay
    \/ SetFreeFall \/ SetZeroMotion \/ SetMotion
    \/ SetMotionDetectionThreshold \/ SetMotionDetectionDuration
    \/ SetZeroMotionDetectionThreshold \/ SetZeroMotionDetectionDuration
    \/ IsMotionDetected \/ IsDataReady \/ SetupMotion

\* the three reads of the output registers
Sample == GetTemp \/ GetAccelValues \/ GetGyroValues

\* construction, then configuration and measurement, and the motion bundle
Next == Construct \/ Config \/ Measure \/ SetupMotion

\* construction and every method of a constructed handle
NextApi == Construct \/ Config \/ Measure \/ Motion

\* a device with any identity byte and a handle not yet constructed
Init ==
    /\ pc = "new"
    /\ conn = "closed"
    /\ regs \in {DeviceRegs(c, id, 128, 1) : c \in InitBytes, id \in IdBytes}
    /\ pre = regs
    /\ log = <<>>
    /\ last = NoCall
    /\ left = MaxCalls
    /\ thr = [t \in Callers |-> Idle]

Spec == Init /\ [][Next]_vars

\* a device whose configuration registers hold any of RegBytes (it is reset
\* or reprogrammed outside the driver), with a handle constructed earlier or
\* none yet; one register-writing call, construction or a setter, then any
\* number of reads.  Sequences of register-writing calls are Spec's part.
InitReg ==
    /\ \/ /\ pc = "ready"
          /\ conn = "started"
          /\ regs \in {DeviceRegs(c, 104, 128, 1) : c \in RegBytes}
       \/ /\ pc = "new"
          /\ conn = "closed"
          /\ regs \in {DeviceRegs(c, id, 128, 1) : c \in RegBytes, id \in IdBytes}
    /\ pre = regs
    /\ log = <<>>
    /\ last = NoCall
    /\ left = 1
    /\ thr = [t \in Callers |-> Idle]

SpecReg == InitReg /\ [][NextApi]_vars

\* a constructed handle on a device whose output registers hold any byte
\* pair; reads of the output registers only
InitMeas ==
    /\ pc = "ready"
    /\ conn = "started"
    /\ regs \in {DeviceRegs(0, 104, hi, lo) : hi \in Byte, lo \in Byte}
    /\ pre = regs
    /\ log = <<>>
    /\ last = NoCall
    /\ left = 0
    /\ thr = [t \in Callers |-> Idle]

SpecMeas == InitMeas /\ [][Sample]_vars

----------------------------------------------------------------------------
(* Two callers on one handle.  A setter is a write_read followed, after    *)
(* the new value is computed from the byte read, by a write_bytes; nothing *)
(* in the driver holds the bus between the two, so the transactions of two *)
(* callers may interleave.  Here log is the bus traffic of the whole run.  *)

\* the read-modify-write setters of PWR_MGMT_1 and INT_ENABLE
ConcOps == {"set_sleep_mode", "set_clock_source",
            "set_free_fall", "set_motion", "set_zero_motion"}

ConcArgs(op) == IF op = "set_clock_source" THEN {0, 1, 6, 7} ELSE StateArgs

\* the setter named op, called on bus b
setter(op, b, arg) ==
    CASE op = "set_sleep_mode" -> set_sleep_mode(b, arg)
      [] op = "set_clock_source" -> set_clock_source(b, arg)
      [] op = "set_free_fall" -> set_free_fall(b, arg)
      [] op = "set_motion" -> set_motion(b, arg)
      [] op = "set_zero_motion" -> set_zero_motion(b, arg)

\* a setter that reads the register again when it writes (one atomic step)
setter_write_reread(b, op, arg, value) == setter(op, b, arg).bus.log[2]

\* the write_bytes transaction of setter op whose write_read returned value:
\* what the method writes when the register held value at its read
setter_write(b, op, arg, value) ==
    LET reg == setter(op, b, arg).bus.log[1][2]
    IN  setter(op, [b EXCEPT !.regs[reg] = value], arg).bus.log[2]

\* caller t enters a setter: the argument check and, if it passes, the read
CallerRead(t) ==
    /\ pc = "ready"
    /\ thr[t].pos = "idle"
    /\ \E op \in ConcOps : \E a \in ConcArgs(op) :
        LET r == setter(op, Bus, a)
        IN  IF r.exc # "none"
            THEN /\ thr' = [thr EXCEPT ![t] = [Idle EXCEPT !.pos = "done", !.op = op,
                                                         !.arg = a, !.exc = r.exc]]
                 /\ log' = log
            ELSE /\ log' = Append(log, r.bus.log[1])
                 /\ thr' = [thr EXCEPT ![t] =
                        [Idle EXCEPT !.pos = "read", !.op = op, !.arg = a,
                                     !.value = rx(Bus, r.bus.log[1][2], 1)[1],
                                     !.rd = Len(log) + 1]]
    /\ UNCHANGED <<pc, conn, regs, pre, last, left>>

\* caller t completes its setter: the write of the value computed from its read
CallerWrite(t) ==
    /\ pc = "ready"
    /\ thr[t].pos = "read"
    /\ LET w == setter_write(Bus, thr[t].op, thr[t].arg, thr[t].value)
       IN  /\ regs' = write_bytes(Bus, w[2], w[3]).regs
           /\ log' = Append(log, w)
           /\ thr' = [thr EXCEPT ![t].pos = "done", ![t].wr = Len(log) + 1]
    /\ UNCHANGED <<pc, conn, pre, last, left>>

NextConc == \E t \in Callers : CallerRead(t) \/ CallerWrite(t)

\* a constructed handle shared by two callers, on a device whose
\* configuration registers hold any of RegBytes
InitConc ==
    /\ pc = "ready"
    /\ conn = "started"
    /\ regs \in {DeviceRegs(c, 104, 128, 1) : c \in RegBytes}
    /\ pre = regs
    /\ log = <<>>
    /\ last = NoCall
    /\ left = 0
    /\ thr = [t \in Callers |-> Idle]

SpecConc == InitConc /\ [][NextConc]_vars

----------------------------------------------------------------------------
(* Properties.                                                             *)

\* the most recent call was op and returned normally
Done(op) == last.op = op /\ last.exc = "none"

\* the most recent call was op and raised ValueError before any bus transaction
Rejected(op) ==
    last.op = op => (last.exc = "ValueError" /\ log = <<>> /\ regs = pre)

Writes(l) == SelectSeq(l, LAMBDA t : t[1] = "w")

\* bits lo .. lo+width-1 of byte v
Field(v, lo, width) == (v \div 2^lo) % 2^width

\* the call changed at most the bits of mask in reg, and nothing else
OnlyField(reg, mask) ==
    /\ \A r \in AllRegs \ {reg} : regs[r] = pre[r]
    /\ \A k \in 0..7 : Field(mask, k, 1) = 0 => Field(regs[reg], k, 1) = Field(pre[reg], k, 1)

\* the two-bit register code of a full-scale range
AccelCodeOf(v) == CASE v = 2 -> 0 [] v = 4 -> 1 [] v = 8 -> 2 [] v = 16 -> 3
GyroCodeOf(v) == CASE v = 250 -> 0 [] v = 500 -> 1 [] v = 1000 -> 2 [] v = 2000 -> 3

\* the signed 16-bit value of a big-endian byte pair
Signed16(hi, lo) ==
    IF hi * 256 + lo < 32768 THEN hi * 256 + lo ELSE hi * 256 + lo - 65536

(* C1: get_accel_values divides the raw axes by the sensitivity of the     *)
(* accelerometer range programmed in ACCEL_CONFIG (16384, 8192, 4096, 2048 *)
(* for 2, 4, 8, 16 g), and get_gyro_values by the sensitivity of the range *)
(* programmed in GYRO_CONFIG (131, 65.5, 32.8, 16.4); after construction   *)
(* these are 16384 and 16.4.  The code always uses the default divisor.    *)
C1_DivisorOfProgrammedRange ==
    /\ Done("get_accel_values") =>
        last.ret[3] = <<163840, 81920, 40960, 20480>>[Field(regs[ACCEL_CONFIG], 3, 2) + 1]
    /\ Done("get_gyro_values") =>
        last.ret[3] = <<1310, 655, 328, 164>>[Field(regs[GYRO_CONFIG], 3, 2) + 1]

(* C2: get_accel_fullscale() called right after set_accel_fullscale(v)     *)
(* returns a value equal to v, and get_gyro_fullscale() right after        *)
(* set_gyro_fullscale(v) returns a value equal to v.  The code returns the *)
(* string that spells v.                                                   *)
C2_FullscaleRoundTrip ==
    [][/\ (Done("set_accel_fullscale") /\ last'.op = "get_accel_fullscale")
            => PyEq(last'.ret, PyInt(last.arg[1]))
       /\ (Done("set_gyro_fullscale") /\ last'.op = "get_gyro_fullscale")
            => PyEq(last'.ret, PyInt(last.arg[1]))]_vars

(* C3: a setter called with an argument outside its domain raises          *)
(* ValueError, issues no register read and no register write, and leaves   *)
(* every register unchanged.                                               *)
C3_InvalidArgumentRejected ==
    /\ (last.op = "set_dlpf_mode" /\ last.arg[1] \notin 0..7) => Rejected("set_dlpf_mode")
    /\ (last.op = "set_dhpf_mode" /\ last.arg[1] \notin {0, 1, 2, 3, 4, 7})
            => Rejected("set_dhpf_mode")
    /\ (last.op = "set_clock_source" /\ last.arg[1] \notin {0, 1, 2, 3, 4, 5, 7})
            => Rejected("set_clock_source")
    /\ (last.op = "set_accel_fullscale" /\ last.arg[1] \notin {2, 4, 8, 16})
            => Rejected("set_accel_fullscale")
    /\ (last.op = "set_gyro_fullscale" /\ last.arg[1] \notin {250, 500, 1000, 2000})
            => Rejected("set_gyro_fullscale")
    /\ (last.op = "set_accel_power_on_delay" /\ last.arg[1] \notin 0..3)
            => Rejected("set_accel_power_on_delay")
    /\ \A op \in {"set_motion_detection_threshold", "set_motion_detection_duration",
                  "set_zero_motion_detection_threshold",
                  "set_zero_motion_detection_duration"} :
            (last.op = op /\ last.arg[1] < 0) => Rejected(op)

\* set_dhpf_mode(5), a reserved code, rejected on a device whose registers hold 0xFF
C3_Witness ==
    /\ last.op = "set_dhpf_mode" /\ last.arg = <<5>> /\ last.exc = "ValueError"
    /\ pre[ACCEL_CONFIG] = 255 /\ regs[ACCEL_CONFIG] = 255

(* C4 as stated: when the identity register reads 0x68 construction        *)
(* succeeds and the register writes of construction are five, to           *)
(* PWR_MGMT_1, ACCEL_CONFIG, GYRO_CONFIG, CONFIG, PWR_MGMT_1 in this order,*)
(* after the identity read.                                                *)
C4_FiveSetupWrites ==
    (last.op = "__init__" /\ last.arg[1] \in {104, 105} /\ pre[REG_WHO_AM_I] = 104) =>
        /\ last.exc = "none"
        /\ log[1] = <<"r", REG_WHO_AM_I, 1>>
        /\ [i \in 1..Len(Writes(log)) |-> Writes(log)[i][2]]
             = <<PWR_MGMT_1, ACCEL_CONFIG, GYRO_CONFIG, REG_CONFIG, PWR_MGMT_1>>

(* C4 amended: when the identity register reads 0x68 construction succeeds *)
(* and the register writes of construction are seven, in this order: clock *)
(* source 1 to PWR_MGMT_1, 0x00 to ACCEL_CONFIG, the +-2g field to         *)
(* ACCEL_CONFIG, 0x00 to GYRO_CONFIG, the +-2000 dps field to GYRO_CONFIG, *)
(* DLPF mode 0 to CONFIG, PWR_MGMT_1 with the sleep bit cleared; the       *)
(* identity read precedes all of them.                                     *)
C4_SevenSetupWrites ==
    (last.op = "__init__" /\ last.arg[1] \in {104, 105} /\ pre[REG_WHO_AM_I] = 104) =>
        /\ last.exc = "none"
        /\ pc = "ready"
        /\ log[1] = <<"r", REG_WHO_AM_I, 1>>
        /\ LET clk == (pre[PWR_MGMT_1] - Field(pre[PWR_MGMT_1], 0, 3)) + 1
           IN  Writes(log) =
                 << <<"w", PWR_MGMT_1, clk>>,
                    <<"w", ACCEL_CONFIG, 0>>,
                    <<"w", ACCEL_CONFIG, 0>>,
                    <<"w", GYRO_CONFIG, 0>>,
                    <<"w", GYRO_CONFIG, 24>>,
                    <<"w", REG_CONFIG, pre[REG_CONFIG] - Field(pre[REG_CONFIG], 0, 3)>>,
                    <<"w", PWR_MGMT_1, clk - 64 * Field(clk, 6, 1)>> >>

\* construction succeeded on a device whose registers held 0xFF
C4_Witness ==
    /\ Done("__init__") /\ pc = "ready"
    /\ pre[PWR_MGMT_1] = 255 /\ regs[PWR_MGMT_1] = 185 /\ regs[GYRO_CONFIG] = 24

(* C5: when the identity register reads anything but 0x68, construction    *)
(* raises ValueError without a register write, every register keeping its  *)
(* contents; with an address other than 0x68 and 0x69 it raises before the *)
(* connection is opened and before any register read or write.             *)
C5_ConstructionFails ==
    /\ (last.op = "__init__" /\ pre[REG_WHO_AM_I] # 104) =>
            /\ last.exc = "ValueError" /\ pc = "failed"
            /\ Writes(log) = <<>> /\ regs = pre
    /\ (last.op = "__init__" /\ last.arg[1] \notin {104, 105}) =>
            /\ last.exc = "ValueError" /\ pc = "failed"
            /\ conn = "closed" /\ log = <<>> /\ regs = pre
    /\ pc = "failed" => (last.op = "__init__" /\ regs = pre)

\* construction at address 0x68 failed on identity byte 0x00 after the one read
C5_Witness ==
    /\ last.op = "__init__" /\ last.arg = <<104>> /\ last.exc = "ValueError"
    /\ pre[REG_WHO_AM_I] = 0 /\ log = << <<"r", REG_WHO_AM_I, 1>> >>
    /\ pre[PWR_MGMT_1] = 255 /\ regs = pre

(* C6: after setup_motion() the power-on delay field is 3, the free-fall,  *)
(* motion and zero-motion enable bits are 0, the DHPF field is 1, and the  *)
(* registers 0x1F, 0x20, 0x21, 0x22 hold 2, 5, 4, 2.  The code writes 2 to *)
(* 0x21 and 4 to 0x22.                                                     *)
C6_SetupMotionPolicy ==
    Done("setup_motion") =>
        /\ Field(regs[REG_MOT_DETECT_CTRL], 4, 2) = 3
        /\ Field(regs[REG_INT_ENABLE], 5, 3) = 0
        /\ Field(regs[ACCEL_CONFIG], 0, 3) = 1
        /\ regs[REG_MOT_THRESHOLD] = 2
        /\ regs[REG_MOT_DURATION] = 5
        /\ regs[REG_ZMOT_THRESHOLD] = 4
        /\ regs[REG_ZMOT_DURATION] = 2

(* C7: the raw sample decoded from a byte pair (hi, lo) is hi*256+lo when  *)
(* that is below 32768 and hi*256+lo-65536 otherwise, so it lies in        *)
(* -32768..32767; the temperature pair and the three accelerometer and     *)
(* gyroscope axis pairs are each decoded so, high byte first.              *)
C7_TwosComplement ==
    LET S(r) == Signed16(regs[r], regs[r + 1])
    IN  /\ Done("get_temp") =>
            /\ last.ret[2] = S(TEMP_OUT0) * 100 + 1242020
            /\ S(TEMP_OUT0) \in -32768..32767
        /\ Done("get_accel_values") =>
            last.ret[2] = <<S(ACCEL_XOUT0), S(ACCEL_XOUT0 + 2), S(ACCEL_XOUT0 + 4)>>
        /\ Done("get_gyro_values") =>
            last.ret[2] = <<S(GYRO_XOUT0), S(GYRO_XOUT0 + 2), S(GYRO_XOUT0 + 4)>>

\* the accelerometer read decoded (0x80, 0x00) as -32768 on X and (0x00, 0x80) as 128 on Y
C7_Witness ==
    /\ Done("get_accel_values")
    /\ regs[ACCEL_XOUT0] = 128 /\ regs[ACCEL_XOUT0 + 1] = 0
    /\ last.ret[2] = <<-32768, 128, -32768>>

(* C8: is_sleep_mode() called right after set_sleep_mode(True) returns 1,  *)
(* right after set_sleep_mode(False) returns 0, and right after a          *)
(* successful construction returns 0.                                      *)
C8_SleepRoundTrip ==
    [][/\ (Done("set_sleep_mode") /\ last'.op = "is_sleep_mode")
            => last'.ret = PyInt(IF last.arg[1] = True THEN 1 ELSE 0)
       /\ (Done("__init__") /\ last'.op = "is_sleep_mode")
            => last'.ret = PyInt(0)]_vars

\* is_sleep_mode() returned 1 on a device whose registers all started at 0
\* (INT_STATUS, which the driver never writes, still holds 0): the sleep bit
\* was set by set_sleep_mode(True)
C8_Witness ==
    /\ Done("is_sleep_mode") /\ last.ret = PyInt(1)
    /\ regs[REG_INT_STATUS] = 0 /\ regs[PWR_MGMT_1] = 64

(* C9: a bit-field setter called with a valid argument issues exactly one  *)
(* write and changes at most its own field: set_sleep_mode bit 6 of        *)
(* PWR_MGMT_1, set_clock_source bits 0-2 of PWR_MGMT_1, set_dlpf_mode bits *)
(* 0-2 of CONFIG, set_dhpf_mode bits 0-2 of ACCEL_CONFIG,                  *)
(* set_accel_power_on_delay bits 4-5 of MOT_DETECT_CTRL, set_free_fall,    *)
(* set_motion, set_zero_motion bit 7, 6, 5 of INT_ENABLE; every other bit  *)
(* and every other register is unchanged.                                  *)
C9_SetterFrame ==
    LET Frame(op, reg, mask) ==
            Done(op) => (OnlyField(reg, mask) /\ Len(Writes(log)) = 1)
    IN  /\ Frame("set_sleep_mode", PWR_MGMT_1, 64)
        /\ Frame("set_clock_source", PWR_MGMT_1, 7)
        /\ Frame("set_dlpf_mode", REG_CONFIG, 7)
        /\ Frame("set_dhpf_mode", ACCEL_CONFIG, 7)
        /\ Frame("set_accel_power_on_delay", REG_MOT_DETECT_CTRL, 48)
        /\ Frame("set_free_fall", REG_INT_ENABLE, 128)
        /\ Frame("set_motion", REG_INT_ENABLE, 64)
        /\ Frame("set_zero_motion", REG_INT_ENABLE, 32)

\* set_dhpf_mode(4) on ACCEL_CONFIG = 0x1B: the full-scale bits 3-4 stay 11
C9_Witness ==
    /\ Done("set_dhpf_mode") /\ last.arg = <<4>>
    /\ pre[ACCEL_CONFIG] = 27 /\ regs[ACCEL_CONFIG] = 28

(* C10: set_accel_fullscale(v) with valid v writes 0x00 to ACCEL_CONFIG    *)
(* and then the field, leaving ACCEL_CONFIG = code(v) << 3 with the DHPF   *)
(* bits and every other bit 0, whatever the register held; the same for    *)
(* set_gyro_fullscale and GYRO_CONFIG.                                     *)
C10_FullscaleZeroesRegister ==
    /\ Done("set_accel_fullscale") =>
        /\ Writes(log) = << <<"w", ACCEL_CONFIG, 0>>,
                            <<"w", ACCEL_CONFIG, AccelCodeOf(last.arg[1]) * 8>> >>
        /\ regs[ACCEL_CONFIG] = AccelCodeOf(last.arg[1]) * 8
        /\ Field(regs[ACCEL_CONFIG], 0, 3) = 0
    /\ Done("set_gyro_fullscale") =>
        /\ Writes(log) = << <<"w", GYRO_CONFIG, 0>>,
                            <<"w", GYRO_CONFIG, GyroCodeOf(last.arg[1]) * 8>> >>
        /\ regs[GYRO_CONFIG] = GyroCodeOf(last.arg[1]) * 8

\* set_accel_fullscale(16) on ACCEL_CONFIG = 0xFF (DHPF field 7) leaves 0x18
C10_Witness ==
    /\ Done("set_accel_fullscale") /\ last.arg = <<16>>
    /\ pre[ACCEL_CONFIG] = 255 /\ regs[ACCEL_CONFIG] = 24

\* the register, lowest bit and width of the field a setter programs
FieldOfOp(op) ==
    CASE op = "set_sleep_mode" -> <<PWR_MGMT_1, 6, 1>>
      [] op = "set_clock_source" -> <<PWR_MGMT_1, 0, 3>>
      [] op = "set_free_fall" -> <<REG_INT_ENABLE, 7, 1>>
      [] op = "set_motion" -> <<REG_INT_ENABLE, 6, 1>>
      [] op = "set_zero_motion" -> <<REG_INT_ENABLE, 5, 1>>

\* the field of caller t's setter, read from register file f
FieldIn(f, t) ==
    LET fd == FieldOfOp(thr[t].op) IN Field(f[fd[1]], fd[2], fd[3])

\* the field value caller t asked for
Wanted(t) ==
    IF thr[t].op = "set_clock_source" THEN thr[t].arg
    ELSE IF thr[t].arg = True THEN 1 ELSE 0

\* both callers completed setters of different fields
BothWrote ==
    /\ \A t \in Callers : thr[t].pos = "done" /\ thr[t].exc = "none"
    /\ thr[1].op # thr[2].op

\* one caller's write came before the other caller's read
Serialized == thr[1].wr < thr[2].rd \/ thr[2].wr < thr[1].rd

(* C11: when two callers have completed setters of different fields: if    *)
(* the calls were serialized, in either order, or addressed different      *)
(* registers, both fields hold the values written; if their transactions   *)
(* on one register interleaved (both reads before either write), the field *)
(* of the caller that wrote first holds what it held before the calls, so  *)
(* that caller's update is lost, and the field of the caller that wrote    *)
(* last holds its value.                                                   *)
C11_LostUpdateWhenInterleaved ==
    BothWrote =>
        /\ (Serialized \/ FieldOfOp(thr[1].op)[1] # FieldOfOp(thr[2].op)[1])
                => \A t \in Callers : FieldIn(regs, t) = Wanted(t)
        /\ \A a \in Callers : \A b \in Callers \ {a} :
                ( /\ ~Serialized
                  /\ FieldOfOp(thr[a].op)[1] = FieldOfOp(thr[b].op)[1]
                  /\ thr[a].wr < thr[b].wr )
                => /\ FieldIn(regs, a) = FieldIn(pre, a)
                   /\ FieldIn(regs, b) = Wanted(b)

\* set_sleep_mode(True) and set_clock_source(1) on PWR_MGMT_1 = 0x00, both
\* reads before both writes, the sleep write first: the register ends 0x01,
\* the sleep bit the first caller set is gone
C11_Witness ==
    /\ BothWrote /\ ~Serialized
    /\ thr[1].op = "set_sleep_mode" /\ thr[1].arg = True
    /\ thr[2].op = "set_clock_source" /\ thr[2].arg = 1
    /\ thr[1].wr < thr[2].wr
    /\ pre[PWR_MGMT_1] = 0 /\ regs[PWR_MGMT_1] = 1
    /\ FieldIn(regs, 1) # Wanted(1)

(* C12: every value handed to write_bytes by a call whose arguments passed *)
(* the driver's validation is a byte in 0..255, the registers read having  *)
(* held bytes.  The threshold and duration setters accept any non-negative *)
(* value and write it as it is, and write_register_bit accepts any         *)
(* non-negative bit position and sets that bit.                            *)
C12_WritesAreBytes ==
    (\A r \in AllRegs : pre[r] \in Byte) =>
        \A i \in 1..Len(log) : log[i][1] = "w" => log[i][3] \in Byte

=============================================================================
